---- MODULE Spec2Model ----
(***************************************************************************)
(* Model of the angular-bundler module graph builder (modulesBuilder.js):  *)
(* the sandbox that records angular.module / provider declarations, the    *)
(* cycle detector, the dependency resolver and the inject validator; of    *)
(* the constructor validation of the two older builder sources; and of     *)
(* the command-line flow with the writing of imports into the templates.   *)
(*                                                                         *)
(* Module, provider and inject names are ordinary identifiers: names that  *)
(* collide with members of Object.prototype ("constructor", "toString",    *)
(* ...) and the empty string are outside the modelled input domain.        *)
(***************************************************************************)
EXTENDS Integers, Sequences, FiniteSets, TLC

VARIABLES
    modules,            \* modulesStructure: module name -> ModuleConfig
    order,              \* Object.keys(modules): insertion order of the names
    currentModuleName,  \* sandbox closure variable (module declared last)
    currentFileName,    \* identifier of the file being evaluated
    declaredIn,         \* history: file whose call supplied the current dependency list
    result,             \* the last sandbox call or graph query and its outcome
    builder,            \* which builder source scans the files
    validateProviderConstructor,  \* third argument of part_003's buildModulesStructure
    argv,               \* command line options
    disk,               \* text of the template (html) files, by path
    written,            \* paths given to fs.writeFileSync, in order
    pc,                 \* position of the command-line flow
    htmlIndex           \* config.html.forEach: 1-based index of the next template

\* what a run is started with and never changes
envVars == <<builder, validateProviderConstructor>>

\* state of the command-line flow after the graph is built
cliVars == <<argv, disk, written, pc, htmlIndex>>

vars == <<modules, order, currentModuleName, currentFileName, declaredIn, result, envVars,
          cliVars>>

---------------------------------------------------------------------------
(* Bounds and input alphabets *)

MaxDeps == 2
MaxInjects == 2

ModNames == {"A", "B", "C"}
KeyOrder == <<"A", "B", "C">>
Files == {"f1", "f2"}
ProviderNames == {"p", "q"}
InjectNames == {"q", "r"}
Kinds == {"factory", "service", "controller", "directive"}

Null == "null"
FN == "function"

SeqsUpTo(S, n) == UNION {[1..k -> S] : k \in 0..n}

---------------------------------------------------------------------------
(* Data model *)

\* Math.ceil(fs.statSync(filename).size / 1024.0) of each file
currentFileSize(f) == IF f = "f1" THEN 1 ELSE 2

ModuleConfig == [dependencies |-> <<>>, files |-> <<>>, size |-> 0, providers |-> <<>>]

ProviderConfig(name, injects) == [name |-> name, injects |-> injects]

\* Array.prototype.indexOf: 0-based index of the first occurrence, or -1
indexOf(arr, e) ==
    IF \E i \in 1..Len(arr) : arr[i] = e
    THEN (CHOOSE i \in 1..Len(arr) : arr[i] = e /\ \A j \in 1..(i-1) : arr[j] # e) - 1
    ELSE -1

---------------------------------------------------------------------------
(* buildAngularModuleSandbox *)

\* constructor argument of a declaration: an array literal, a function with
\* `length` declared parameters, or any other value
ArrayConstructor(elems) == [type |-> "array", elems |-> elems, length |-> Len(elems)]
FunctionConstructor(n) == [type |-> "function", elems |-> <<>>, length |-> n]
ObjectConstructor == [type |-> "object", elems |-> <<>>, length |-> 0]

Min(a, b) == IF a < b THEN a ELSE b
Max(a, b) == IF a > b THEN a ELSE b

\* faulty variant of slice: the end index is ignored
sliceKeepLast(arr, begin, end) == arr

\* Array.prototype.slice(begin, end) for begin >= 0; a negative end counts
\* from the end of the array
slice(arr, begin, end) ==
    LET to == IF end < 0 THEN Max(Len(arr) + end, 0) ELSE Min(end, Len(arr))
    IN SubSeq(arr, begin + 1, to)

\* modules[name] = value
SetModule(ms, name, value) ==
    [m \in DOMAIN ms \cup {name} |-> IF m = name THEN value ELSE ms[m]]

\* Object.keys after modules[name] is assigned
KeysWith(keys, name) == IF indexOf(keys, name) >= 0 THEN keys ELSE Append(keys, name)

\* faulty variant of angularModule: no indexOf guard on the file list
angularModuleAlwaysPush(ms, name, hasDependencies, dependencies, file) ==
    LET module == IF name \in DOMAIN ms THEN ms[name] ELSE ModuleConfig
        m1 == IF hasDependencies THEN [module EXCEPT !.dependencies = dependencies] ELSE module
    IN SetModule(ms, name,
           [m1 EXCEPT !.files = IF hasDependencies THEN <<file>> \o m1.files
                                ELSE Append(m1.files, file),
                      !.size = m1.size + currentFileSize(file)])

\* faulty variant of angularModule: a dependency list resets the entry's providers
angularModuleDropProviders(ms, name, hasDependencies, dependencies, file) ==
    LET module == IF name \in DOMAIN ms /\ ~hasDependencies THEN ms[name]
                  ELSE IF name \in DOMAIN ms
                       THEN [ms[name] EXCEPT !.providers = <<>>]
                       ELSE ModuleConfig
        m1 == IF hasDependencies THEN [module EXCEPT !.dependencies = dependencies] ELSE module
        m2 == IF indexOf(m1.files, file) < 0
              THEN [m1 EXCEPT !.files = IF hasDependencies THEN <<file>> \o m1.files
                                        ELSE Append(m1.files, file),
                              !.size = m1.size + currentFileSize(file)]
              ELSE m1
    IN SetModule(ms, name, m2)

\* sandbox.angular.module = function(name, dependencies): the graph after the
\* call made while `file` is evaluated; hasDependencies tells whether the
\* second argument was given
angularModule(ms, name, hasDependencies, dependencies, file) ==
    LET module == IF name \in DOMAIN ms THEN ms[name] ELSE ModuleConfig
        m1 == IF hasDependencies THEN [module EXCEPT !.dependencies = dependencies] ELSE module
        m2 == IF indexOf(m1.files, file) < 0
              THEN [m1 EXCEPT !.files = IF hasDependencies THEN <<file>> \o m1.files
                                        ELSE Append(m1.files, file),
                              !.size = m1.size + currentFileSize(file)]
              ELSE m1
    IN SetModule(ms, name, m2)

\* faulty variant of validateConstructor: a function counts as minify-ready
\* whatever the number of its declared parameters
validateConstructorAnyFunction(ms, current, name, constructor) ==
    LET isArrayMinifyReadyConstructor == constructor.type = "array"
        isFunctionMinifyReadyConstructor == constructor.type = "function"
    IN IF ~isArrayMinifyReadyConstructor /\ ~isFunctionMinifyReadyConstructor
       THEN [modules |-> ms, outcome |-> "not minify-ready"]
       ELSE IF current = Null
       THEN [modules |-> ms, outcome |-> "defined before module"]
       ELSE IF \E i \in 1..Len(ms[current].providers) : ms[current].providers[i].name = name
       THEN [modules |-> ms, outcome |-> "duplicate"]
       ELSE LET injects == IF isArrayMinifyReadyConstructor
                           THEN slice(constructor.elems, 0, Len(constructor.elems) - 1)
                           ELSE <<>>
            IN [modules |-> [ms EXCEPT ![current].providers =
                                Append(@, ProviderConfig(name, injects))],
                outcome |-> "recorded"]

\* faulty variant of validateConstructor: a name is a duplicate when any
\* module of the graph has recorded it
validateConstructorGlobalNames(ms, current, name, constructor) ==
    LET isArrayMinifyReadyConstructor == constructor.type = "array"
        isFunctionMinifyReadyConstructor ==
            constructor.type = "function" /\ constructor.length = 0
    IN IF ~isArrayMinifyReadyConstructor /\ ~isFunctionMinifyReadyConstructor
       THEN [modules |-> ms, outcome |-> "not minify-ready"]
       ELSE IF current = Null
       THEN [modules |-> ms, outcome |-> "defined before module"]
       ELSE IF \E m \in DOMAIN ms : \E i \in 1..Len(ms[m].providers) :
                    ms[m].providers[i].name = name
       THEN [modules |-> ms, outcome |-> "duplicate"]
       ELSE LET injects == IF isArrayMinifyReadyConstructor
                           THEN slice(constructor.elems, 0, Len(constructor.elems) - 1)
                           ELSE <<>>
            IN [modules |-> [ms EXCEPT ![current].providers =
                                Append(@, ProviderConfig(name, injects))],
                outcome |-> "recorded"]

\* faulty variant of validateConstructor: a provider declared before any
\* module is recorded under a module entry of its own
validateConstructorOrphanModule(ms, current, name, constructor) ==
    LET isArrayMinifyReadyConstructor == constructor.type = "array"
        isFunctionMinifyReadyConstructor ==
            constructor.type = "function" /\ constructor.length = 0
        injects == IF isArrayMinifyReadyConstructor
                   THEN slice(constructor.elems, 0, Len(constructor.elems) - 1)
                   ELSE <<>>
    IN IF ~isArrayMinifyReadyConstructor /\ ~isFunctionMinifyReadyConstructor
       THEN [modules |-> ms, outcome |-> "not minify-ready"]
       ELSE IF current = Null
       THEN [modules |-> SetModule(ms, Null,
                            [ModuleConfig EXCEPT !.providers = <<ProviderConfig(name, injects)>>]),
             outcome |-> "recorded"]
       ELSE IF \E i \in 1..Len(ms[current].providers) : ms[current].providers[i].name = name
       THEN [modules |-> ms, outcome |-> "duplicate"]
       ELSE [modules |-> [ms EXCEPT ![current].providers =
                             Append(@, ProviderConfig(name, injects))],
             outcome |-> "recorded"]

\* function validateConstructor(name, constructor): the graph after the call
\* and what the call printed
validateConstructor(ms, current, name, constructor) ==
    LET isArrayMinifyReadyConstructor == constructor.type = "array"
        isFunctionMinifyReadyConstructor ==
            constructor.type = "function" /\ constructor.length = 0
    IN IF ~isArrayMinifyReadyConstructor /\ ~isFunctionMinifyReadyConstructor
       THEN [modules |-> ms, outcome |-> "not minify-ready"]
       ELSE IF current = Null
       THEN [modules |-> ms, outcome |-> "defined before module"]
       ELSE IF \E i \in 1..Len(ms[current].providers) : ms[current].providers[i].name = name
       THEN [modules |-> ms, outcome |-> "duplicate"]
       ELSE LET injects == IF isArrayMinifyReadyConstructor
                           THEN slice(constructor.elems, 0, Len(constructor.elems) - 1)
                           ELSE <<>>
            IN [modules |-> [ms EXCEPT ![current].providers =
                                Append(@, ProviderConfig(name, injects))],
                outcome |-> "recorded"]

\* validateConstructor of modules.js: only an array is minify-ready
validateConstructor_modules(ms, current, name, constructor) ==
    IF constructor.type # "array"
    THEN [modules |-> ms, outcome |-> "not minify-ready"]
    ELSE IF current = Null
    THEN [modules |-> ms, outcome |-> "defined before module"]
    ELSE IF \E i \in 1..Len(ms[current].providers) : ms[current].providers[i].name = name
    THEN [modules |-> ms, outcome |-> "duplicate"]
    ELSE [modules |-> [ms EXCEPT ![current].providers =
                          Append(@, ProviderConfig(name,
                                      slice(constructor.elems, 0, Len(constructor.elems) - 1)))],
          outcome |-> "recorded"]

\* validateConstructor of part_003: with the flag the checks throw an Error,
\* without it the call does nothing at all
validateConstructor_part_003(ms, current, name, constructor, flag) ==
    IF ~flag
    THEN [modules |-> ms, outcome |-> "ignored"]
    ELSE IF constructor.type # "array"
    THEN [modules |-> ms, outcome |-> "Error: not minify-ready"]
    ELSE IF current = Null
    THEN [modules |-> ms, outcome |-> "Error: defined before module"]
    ELSE IF \E i \in 1..Len(ms[current].providers) : ms[current].providers[i].name = name
    THEN [modules |-> ms, outcome |-> "Error: duplicate"]
    ELSE [modules |-> [ms EXCEPT ![current].providers =
                          Append(@, ProviderConfig(name,
                                      slice(constructor.elems, 0, Len(constructor.elems) - 1)))],
          outcome |-> "recorded"]

\* outcomes that leave the call by a thrown Error
Thrown == {"Error: not minify-ready", "Error: defined before module", "Error: duplicate"}

\* outcomes printed with console.error
Printed == {"not minify-ready", "defined before module", "duplicate"}

---------------------------------------------------------------------------
(* sandbox.angular.module.provider *)

\* constructor argument of a provider declaration: a function, or an array
\* whose last element is that function and whose other elements are
\* `injects`; `throws` tells whether `new serviceConstructor()` throws, and
\* `get` is the $get member of the constructed object
ProviderConstructor(isArray, injects, throws, get) ==
    [isArray |-> isArray, injects |-> injects, throws |-> throws, get |-> get]

\* the $get member of an object that has none
Undefined == [type |-> "undefined", elems |-> <<>>, length |-> 0]

\* a value other than an array or a function with one own enumerable key
ObjectWithKey == [type |-> "object", elems |-> <<"a">>, length |-> 0]

\* Object.keys(value).length: the elements of an array, the own enumerable
\* keys of an object, none for a function
keysLength(value) == Len(value.elems)

\* faulty variant of angularModuleProvider: $get is validated whatever its keys are
angularModuleProviderAlwaysValidate(ms, current, name, constructor) ==
    LET validated == IF constructor.isArray
                     THEN validateConstructor(ms, current, name \o "Provider",
                                              ArrayConstructor(Append(constructor.injects, FN))).modules
                     ELSE ms
    IN IF constructor.throws
       THEN [modules |-> validated, outcome |-> "unable to create"]
       ELSE IF constructor.get = Undefined
       THEN [modules |-> validated, outcome |-> "missing $get"]
       ELSE validateConstructor(validated, current, name, constructor.get)

\* sandbox.angular.module.provider = function(name, constructor) {...}
angularModuleProvider(ms, current, name, constructor) ==
    LET isArrayConstructor == constructor.isArray
        validated == IF isArrayConstructor
                     THEN validateConstructor(ms, current, name \o "Provider",
                                              ArrayConstructor(Append(constructor.injects, FN))).modules
                     ELSE ms
    IN IF constructor.throws
       THEN [modules |-> validated, outcome |-> "unable to create"]
       ELSE IF constructor.get = Undefined
       THEN [modules |-> validated, outcome |-> "missing $get"]
       ELSE IF keysLength(constructor.get) = 0
       THEN [modules |-> validated, outcome |-> "skipped"]
       ELSE validateConstructor(validated, current, name, constructor.get)

---------------------------------------------------------------------------
(* findCircularReference *)

CRef(trail) == [thrown |-> TRUE, trail |-> trail]
NoThrow == [thrown |-> FALSE, trail |-> <<>>]

RECURSIVE doFind(_, _, _)
RECURSIVE doFindDeps(_, _, _, _)

\* deps.forEach(function(dep) { if (modules[dep]) doFind(dep, trail.concat(module)) })
doFindDeps(ms, deps, i, trail) ==
    IF i > Len(deps) THEN NoThrow
    ELSE IF deps[i] \in DOMAIN ms
         THEN LET r == doFind(ms, deps[i], trail)
              IN IF r.thrown THEN r ELSE doFindDeps(ms, deps, i + 1, trail)
         ELSE doFindDeps(ms, deps, i + 1, trail)

\* faulty variant of doFind: the revisited name is not appended to the trail
doFindNoConcat(ms, module, trail) ==
    IF indexOf(trail, module) >= 0
    THEN CRef(trail)
    ELSE doFindDeps(ms, ms[module].dependencies, 1, trail \o <<module>>)

\* faulty variant of doFind: a name is a circular reference only when it is
\* met for the third time
doFindSecondVisit(ms, module, trail) ==
    IF Cardinality({i \in 1..Len(trail) : trail[i] = module}) >= 2
    THEN CRef(trail \o <<module>>)
    ELSE doFindDeps(ms, ms[module].dependencies, 1, trail \o <<module>>)

doFind(ms, module, trail) ==
    IF indexOf(trail, module) >= 0
    THEN CRef(trail \o <<module>>)
    ELSE doFindDeps(ms, ms[module].dependencies, 1, trail \o <<module>>)

RECURSIVE findLoop(_, _, _)
findLoop(ms, modulesNames, i) ==
    IF i > Len(modulesNames) THEN [found |-> FALSE, trail |-> <<>>]
    ELSE LET r == doFind(ms, modulesNames[i], <<>>)
         IN IF r.thrown THEN [found |-> TRUE, trail |-> r.trail]
            ELSE findLoop(ms, modulesNames, i + 1)

\* faulty variant of findCircularReference: only the first module seeds the search
findCircularReferenceFirstOnly(ms, modulesNames) ==
    findLoop(ms, SubSeq(modulesNames, 1, IF Len(modulesNames) > 0 THEN 1 ELSE 0), 1)

\* faulty variant of findCircularReference: the modules seed the search in
\* the reverse of the iteration order
findCircularReferenceReversed(ms, modulesNames) ==
    findLoop(ms, [i \in 1..Len(modulesNames) |-> modulesNames[Len(modulesNames) + 1 - i]], 1)

findCircularReference(ms, modulesNames) == findLoop(ms, modulesNames, 1)

---------------------------------------------------------------------------
(* resolveDependencies *)

\* depth at which the recursion of doResolve can only be in a cycle
StackLimit == Cardinality(ModNames) + 2

\* faulty variant of dropDuplicates: nothing is dropped
dropDuplicatesNone(array) == array

\* faulty variant of dropDuplicates: the last occurrence is kept
dropDuplicatesKeepLast(array) ==
    LET keep(i) == \A j \in (i+1)..Len(array) : array[j] # array[i]
        F[i \in 0..Len(array)] ==
            IF i = 0 THEN <<>>
            ELSE IF keep(i) THEN Append(F[i-1], array[i]) ELSE F[i-1]
    IN F[Len(array)]

\* .filter(function dropDuplicates(element, index, array) { return index === array.indexOf(element) })
dropDuplicates(array) ==
    LET F[i \in 0..Len(array)] ==
            IF i = 0 THEN <<>>
            ELSE IF indexOf(array, array[i]) = i - 1 THEN Append(F[i-1], array[i]) ELSE F[i-1]
    IN F[Len(array)]

RECURSIVE doResolve(_, _, _)
RECURSIVE doResolveReduce(_, _, _, _, _)

RECURSIVE doResolveReduceKeepDangling(_, _, _, _, _)
\* faulty variant of doResolveReduce: a name without a module is kept in the list
doResolveReduceKeepDangling(ms, deps, i, prev, depth) ==
    IF i > Len(deps) THEN [overflow |-> FALSE, list |-> prev]
    ELSE IF deps[i] \in DOMAIN ms
         THEN LET r == doResolve(ms, ms[deps[i]].dependencies, depth + 1)
              IN IF r.overflow THEN r
                 ELSE doResolveReduceKeepDangling(ms, deps, i + 1,
                                                  (prev \o r.list) \o <<deps[i]>>, depth)
         ELSE doResolveReduceKeepDangling(ms, deps, i + 1, prev \o <<deps[i]>>, depth)

RECURSIVE doResolveReducePreOrder(_, _, _, _, _)
\* faulty variant of doResolveReduce: a module comes before its own dependencies
doResolveReducePreOrder(ms, deps, i, prev, depth) ==
    IF i > Len(deps) THEN [overflow |-> FALSE, list |-> prev]
    ELSE IF deps[i] \in DOMAIN ms
         THEN LET r == doResolve(ms, ms[deps[i]].dependencies, depth + 1)
              IN IF r.overflow THEN r
                 ELSE doResolveReducePreOrder(ms, deps, i + 1,
                                              (prev \o <<deps[i]>>) \o r.list, depth)
         ELSE doResolveReducePreOrder(ms, deps, i + 1, prev, depth)

\* deps.reduce(function(prev, dep) {...}, [])
doResolveReduce(ms, deps, i, prev, depth) ==
    IF i > Len(deps) THEN [overflow |-> FALSE, list |-> prev]
    ELSE IF deps[i] \in DOMAIN ms
         THEN LET r == doResolve(ms, ms[deps[i]].dependencies, depth + 1)
              IN IF r.overflow THEN r
                 ELSE doResolveReduce(ms, deps, i + 1, (prev \o r.list) \o <<deps[i]>>, depth)
         ELSE doResolveReduce(ms, deps, i + 1, prev, depth)

doResolve(ms, deps, depth) ==
    IF depth > StackLimit THEN [overflow |-> TRUE, list |-> <<>>]
    ELSE LET r == doResolveReduce(ms, deps, 1, <<>>, depth)
         IN IF r.overflow THEN r ELSE [overflow |-> FALSE, list |-> dropDuplicates(r.list)]

\* faulty variant of resolveDependencies: no cycle check before doResolve
resolveDependenciesUnchecked(moduleName, ms, modulesNames) ==
    LET r == doResolve(ms, <<moduleName>>, 0)
    IN IF r.overflow THEN [outcome |-> "overflow", value |-> <<>>]
       ELSE [outcome |-> "return", value |-> r.list]

\* outcome: "return" with the list, "throw" (Error: circular dependency),
\* "overflow" (recursion that does not end)
resolveDependencies(moduleName, ms, modulesNames) ==
    IF findCircularReference(ms, modulesNames).found
    THEN [outcome |-> "throw", value |-> <<>>]
    ELSE LET r == doResolve(ms, <<moduleName>>, 0)
         IN IF r.overflow THEN [outcome |-> "overflow", value |-> <<>>]
            ELSE [outcome |-> "return", value |-> r.list]

---------------------------------------------------------------------------
(* generator.js: resolveDependenciesDeep *)

RECURSIVE resolveDependenciesDeep(_, _, _)
RECURSIVE resolveDependenciesDeepReduce(_, _, _, _, _)

\* deps.reduce(function(prev, dep) {...}, []); the `deps` field of
\* generator.js is the `dependencies` field of the graph
resolveDependenciesDeepReduce(deps, ms, i, prev, depth) ==
    IF i > Len(deps) THEN [overflow |-> FALSE, list |-> prev]
    ELSE IF deps[i] \in DOMAIN ms
         THEN LET r == resolveDependenciesDeep(ms[deps[i]].dependencies, ms, depth + 1)
              IN IF r.overflow THEN r
                 ELSE resolveDependenciesDeepReduce(deps, ms, i + 1,
                                                    Append(prev \o r.list, deps[i]), depth)
         ELSE resolveDependenciesDeepReduce(deps, ms, i + 1, prev, depth)

\* function resolveDependenciesDeep(deps, modules); `depth` counts the
\* calls on the stack, and a recursion deeper than StackLimit does not end
\* by itself
resolveDependenciesDeep(deps, ms, depth) ==
    IF depth > StackLimit THEN [overflow |-> TRUE, list |-> <<>>]
    ELSE LET r == resolveDependenciesDeepReduce(deps, ms, 1, <<>>, depth)
         IN IF r.overflow THEN r ELSE [overflow |-> FALSE, list |-> dropDuplicates(r.list)]

---------------------------------------------------------------------------
(* validateInjects *)

\* faulty variant of Put: the first module written for a name is kept
PutIfAbsent(prev, name, moduleName) ==
    [x \in DOMAIN prev \cup {name} |-> IF x \in DOMAIN prev THEN prev[x] ELSE moduleName]

\* prev[provider.name] = moduleName
Put(prev, name, moduleName) ==
    [x \in DOMAIN prev \cup {name} |-> IF x = name THEN moduleName ELSE prev[x]]

RECURSIVE indexProviders(_, _, _, _)
\* modules[moduleName].providers.forEach(function(provider) {...})
indexProviders(providers, i, moduleName, prev) ==
    IF i > Len(providers) THEN prev
    ELSE indexProviders(providers, i + 1, moduleName, Put(prev, providers[i].name, moduleName))

RECURSIVE indexModules(_, _, _, _)
\* Object.keys(modules).reduce(function(prev, moduleName) {...}, {})
indexModules(ms, modulesNames, i, prev) ==
    IF i > Len(modulesNames) THEN prev
    ELSE indexModules(ms, modulesNames, i + 1,
                      indexProviders(ms[modulesNames[i]].providers, 1, modulesNames[i], prev))

moduleByProvider(ms, modulesNames) == indexModules(ms, modulesNames, 1, <<>>)

\* faulty variant of invalidInject: the owner is not compared with the module itself
invalidInjectNoOwnModule(ms, byProvider, moduleName, inject) ==
    /\ inject \in DOMAIN byProvider
    /\ ~ \E k \in 1..Len(ms[moduleName].dependencies) :
           ms[moduleName].dependencies[k] = byProvider[inject]

\* moduleDependency && moduleDependency !== moduleName && !module.dependencies.some(...)
invalidInject(ms, byProvider, moduleName, inject) ==
    /\ inject \in DOMAIN byProvider
    /\ byProvider[inject] # moduleName
    /\ ~ \E k \in 1..Len(ms[moduleName].dependencies) :
           ms[moduleName].dependencies[k] = byProvider[inject]

\* the text pushed to errors, kept as the four names it is built from
InjectError(moduleName, provider, inject, moduleDependency) ==
    [module |-> moduleName, provider |-> provider, inject |-> inject,
     dependency |-> moduleDependency]

\* provider.injects.forEach(function(inject) {...})
injectErrors(ms, byProvider, moduleName, provider) ==
    LET F[i \in 0..Len(provider.injects)] ==
            IF i = 0 THEN <<>>
            ELSE IF invalidInject(ms, byProvider, moduleName, provider.injects[i])
                 THEN Append(F[i-1], InjectError(moduleName, provider.name, provider.injects[i],
                                                 byProvider[provider.injects[i]]))
                 ELSE F[i-1]
    IN F[Len(provider.injects)]

\* module.providers.forEach(function(provider) {...})
providerErrors(ms, byProvider, moduleName) ==
    LET providers == ms[moduleName].providers
        F[i \in 0..Len(providers)] ==
            IF i = 0 THEN <<>>
            ELSE F[i-1] \o injectErrors(ms, byProvider, moduleName, providers[i])
    IN F[Len(providers)]

validateInjects(ms, modulesNames) ==
    LET byProvider == moduleByProvider(ms, modulesNames)
        F[i \in 0..Len(modulesNames)] ==
            IF i = 0 THEN <<>>
            ELSE F[i-1] \o providerErrors(ms, byProvider, modulesNames[i])
    IN F[Len(modulesNames)]

---------------------------------------------------------------------------
(* Graph queries on a built graph *)

NoResult == [op |-> "none", arg |-> Null, outcome |-> "none", value |-> <<>>]

\* the command-line flow has not started
InitIdle ==
    /\ argv = [noWrite |-> FALSE, validateInjects |-> FALSE, makeJson |-> FALSE,
               makeDot |-> FALSE]
    /\ disk = <<>>
    /\ written = <<>>
    /\ pc = "build"
    /\ htmlIndex = 1

\* a run of the current builder, modulesBuilder.js, which always validates
InitEnv ==
    /\ builder = "modulesBuilder"
    /\ validateProviderConstructor = TRUE
    /\ InitIdle

\* a dependency list may name modules that the graph does not declare
DepLists == SeqsUpTo(ModNames, MaxDeps)

GraphModule(deps) ==
    [dependencies |-> deps, files |-> <<"f1">>, size |-> currentFileSize("f1"), providers |-> <<>>]

InitGraph ==
    /\ \E n \in 1..Len(KeyOrder) :
         /\ order = SubSeq(KeyOrder, 1, n)
         /\ \E d \in [{KeyOrder[i] : i \in 1..n} -> DepLists] :
              modules = [m \in DOMAIN d |-> GraphModule(d[m])]
    /\ currentModuleName = order[Len(order)]
    /\ currentFileName = "f1"
    /\ declaredIn = [m \in DOMAIN modules |-> "f1"]
    /\ result = NoResult
    /\ InitEnv

FindCircularReference ==
    /\ result.op = "none"
    /\ LET r == findCircularReference(modules, order)
       IN result' = [op |-> "findCircularReference", arg |-> Null,
                     outcome |-> IF r.found THEN "trail" ELSE "undefined",
                     value |-> r.trail]
    /\ UNCHANGED <<modules, order, currentModuleName, currentFileName, declaredIn>>
    /\ UNCHANGED <<envVars, cliVars>>

ResolveDependencies(moduleName) ==
    /\ result.op = "none"
    /\ moduleName \in DOMAIN modules
    /\ LET r == resolveDependencies(moduleName, modules, order)
       IN result' = [op |-> "resolveDependencies", arg |-> moduleName,
                     outcome |-> r.outcome, value |-> r.value]
    /\ UNCHANGED <<modules, order, currentModuleName, currentFileName, declaredIn>>
    /\ UNCHANGED <<envVars, cliVars>>

NextGraph ==
    \/ FindCircularReference
    \/ \E m \in ModNames : ResolveDependencies(m)

SpecGraph == InitGraph /\ [][NextGraph]_vars

---------------------------------------------------------------------------
(* buildModulesStructure: the scan of the source files *)

InitBuild ==
    /\ modules = <<>>
    /\ order = <<>>
    /\ currentModuleName = Null
    /\ currentFileName = Null
    /\ declaredIn = <<>>
    /\ result = NoResult
    /\ InitEnv

\* faulty variant of NextFile: the sandbox forgets its current module
NextFileForgetModule(f) ==
    /\ currentFileName' = f
    /\ currentModuleName' = Null
    /\ result' = [op |-> "file", arg |-> f, outcome |-> "none", value |-> <<>>]
    /\ UNCHANGED <<modules, order, declaredIn>>
    /\ UNCHANGED <<envVars, cliVars>>

\* filenames.forEach: the next file is read and evaluated
NextFile(f) ==
    /\ currentFileName' = f
    /\ result' = [op |-> "file", arg |-> f, outcome |-> "none", value |-> <<>>]
    /\ UNCHANGED <<modules, order, currentModuleName, declaredIn>>
    /\ UNCHANGED <<envVars, cliVars>>

\* the evaluated file calls angular.module(name) or angular.module(name, dependencies)
AngularModule(name, hasDependencies, dependencies) ==
    /\ currentFileName # Null
    /\ modules' = angularModule(modules, name, hasDependencies, dependencies, currentFileName)
    /\ order' = KeysWith(order, name)
    /\ currentModuleName' = name
    /\ declaredIn' = [m \in DOMAIN declaredIn \cup {name} |->
                        IF m = name
                        THEN IF hasDependencies THEN currentFileName
                             ELSE IF name \in DOMAIN declaredIn THEN declaredIn[name] ELSE Null
                        ELSE declaredIn[m]]
    /\ result' = [op |-> "module", arg |-> name,
                  \* "redeclaration": a dependency list for a name the graph already holds
                  outcome |-> IF ~hasDependencies THEN "reference"
                              ELSE IF name \in DOMAIN modules THEN "redeclaration"
                              ELSE "declaration",
                  value |-> dependencies]
    /\ UNCHANGED currentFileName
    /\ UNCHANGED <<envVars, cliVars>>

\* the evaluated file calls .factory / .service / .controller / .directive
Declare(kind, name, constructor) ==
    /\ currentFileName # Null
    /\ LET r == validateConstructor(modules, currentModuleName, name, constructor)
       IN /\ modules' = r.modules
          /\ result' = [op |-> kind, arg |-> name, outcome |-> r.outcome, value |-> constructor]
    /\ UNCHANGED <<order, currentModuleName, currentFileName, declaredIn>>
    /\ UNCHANGED <<envVars, cliVars>>

BuildNames == {"A", "B"}
BuildDepLists == {<<>>, <<"B">>, <<"A", "B">>}

\* scans with many module calls and few kinds of provider declaration
ScanConstructors == {ArrayConstructor(<<"q", FN>>), FunctionConstructor(1)}

NextBuild ==
    \/ \E f \in Files : NextFile(f)
    \/ \E name \in BuildNames : AngularModule(name, FALSE, <<>>)
    \/ \E name \in BuildNames, dependencies \in BuildDepLists :
         AngularModule(name, TRUE, dependencies)
    \/ \E constructor \in ScanConstructors : Declare("factory", "p", constructor)

SpecBuild == InitBuild /\ [][NextBuild]_vars

\* scans of one file with few module calls and many provider declarations
Constructors ==
    {ArrayConstructor(<<"q", "r", FN>>), ArrayConstructor(<<FN>>), ArrayConstructor(<<>>),
     FunctionConstructor(0), FunctionConstructor(1), ObjectConstructor}

InitProviders ==
    /\ modules = <<>>
    /\ order = <<>>
    /\ currentModuleName = Null
    /\ currentFileName = "f1"
    /\ declaredIn = <<>>
    /\ result = NoResult
    /\ InitEnv

NextProviders ==
    \/ \E name \in BuildNames : AngularModule(name, TRUE, <<>>)
    \/ \E kind \in Kinds, name \in ProviderNames, constructor \in Constructors :
         Declare(kind, name, constructor)

SpecProviders == InitProviders /\ [][NextProviders]_vars

---------------------------------------------------------------------------
(* generator.js: the rewriting of one template against a built graph *)

\* config.html.forEach: the template names mainModuleName in ng-app; the
\* dependencies of the main module are resolved before anything is written
GeneratorResolve(mainModuleName) ==
    /\ result.op = "none"
    /\ IF mainModuleName \notin DOMAIN modules
       THEN result' = [op |-> "resolveDependenciesDeep", arg |-> mainModuleName,
                       outcome |-> "Error: module not found", value |-> <<>>]
       ELSE LET r == resolveDependenciesDeep(modules[mainModuleName].dependencies, modules, 0)
            IN result' = [op |-> "resolveDependenciesDeep", arg |-> mainModuleName,
                          outcome |-> IF r.overflow THEN "overflow" ELSE "return",
                          value |-> r.list]
    /\ UNCHANGED <<modules, order, currentModuleName, currentFileName, declaredIn>>
    /\ UNCHANGED <<envVars, cliVars>>

NextGenerator == \E mainModuleName \in ModNames : GeneratorResolve(mainModuleName)

SpecGenerator == InitGraph /\ [][NextGenerator]_vars

---------------------------------------------------------------------------
(* Scans of one file that declare providers with .provider and .factory *)

\* the evaluated file calls .provider(name, constructor)
DeclareProvider(name, constructor) ==
    /\ currentFileName # Null
    /\ LET r == angularModuleProvider(modules, currentModuleName, name, constructor)
       IN /\ modules' = r.modules
          /\ result' = [op |-> "provider", arg |-> name, outcome |-> r.outcome,
                        value |-> constructor]
    /\ UNCHANGED <<order, currentModuleName, currentFileName, declaredIn>>
    /\ UNCHANGED <<envVars, cliVars>>

\* the shapes a constructor or a $get member can have
Shapes ==
    {ArrayConstructor(<<"q", FN>>), ArrayConstructor(<<FN>>), ArrayConstructor(<<>>),
     FunctionConstructor(0), FunctionConstructor(1), ObjectConstructor, ObjectWithKey}

ProviderConstructors ==
    {ProviderConstructor(FALSE, <<>>, FALSE, get) : get \in Shapes \cup {Undefined}}
        \cup {ProviderConstructor(FALSE, <<>>, TRUE, Undefined),
              ProviderConstructor(TRUE, <<"r">>, FALSE, ArrayConstructor(<<"q", FN>>)),
              ProviderConstructor(TRUE, <<"r">>, FALSE, FunctionConstructor(0))}

NextProviderKind ==
    \/ \E name \in BuildNames : AngularModule(name, TRUE, <<>>)
    \/ \E constructor \in Shapes : Declare("factory", "p", constructor)
    \/ \E constructor \in ProviderConstructors : DeclareProvider("p", constructor)

SpecProviderKind == InitProviders /\ [][NextProviderKind]_vars

---------------------------------------------------------------------------
(* The three builder sources scanning the same files *)

Builders == {"modulesBuilder", "modules", "part_003"}

InitSandboxes ==
    /\ modules = <<>>
    /\ order = <<>>
    /\ currentModuleName = Null
    /\ currentFileName = Null
    /\ declaredIn = <<>>
    /\ result = NoResult
    /\ builder \in Builders
    /\ validateProviderConstructor \in (IF builder = "part_003" THEN BOOLEAN ELSE {TRUE})
    /\ InitIdle

\* an Error thrown inside vm.runInContext left the file; the catch block is empty
Aborted == result.outcome \in Thrown

\* filenames.forEach reaches the next file (also after the catch block)
SandboxNextFile(f) == NextFile(f)

\* the module call is the same code in the three sources
SandboxModule(name, hasDependencies, dependencies) ==
    /\ ~Aborted
    /\ AngularModule(name, hasDependencies, dependencies)

\* .factory / .service / .controller / .directive of the source in use
SandboxDeclare(kind, name, constructor) ==
    /\ currentFileName # Null
    /\ ~Aborted
    /\ LET r == CASE builder = "modulesBuilder" ->
                       validateConstructor(modules, currentModuleName, name, constructor)
                  [] builder = "modules" ->
                       validateConstructor_modules(modules, currentModuleName, name, constructor)
                  [] OTHER ->
                       validateConstructor_part_003(modules, currentModuleName, name, constructor,
                                                    validateProviderConstructor)
       IN /\ modules' = r.modules
          /\ result' = [op |-> kind, arg |-> name, outcome |-> r.outcome, value |-> constructor]
    /\ UNCHANGED <<order, currentModuleName, currentFileName, declaredIn>>
    /\ UNCHANGED <<envVars, cliVars>>

SandboxKinds == {"factory"}
SandboxConstructors ==
    {ArrayConstructor(<<"q", FN>>), FunctionConstructor(0), FunctionConstructor(1)}

NextSandboxes ==
    \/ \E f \in Files : SandboxNextFile(f)
    \/ \E name \in BuildNames : SandboxModule(name, TRUE, <<>>)
    \/ \E kind \in SandboxKinds, name \in ProviderNames, constructor \in SandboxConstructors :
         SandboxDeclare(kind, name, constructor)

SpecSandboxes == InitSandboxes /\ [][NextSandboxes]_vars

---------------------------------------------------------------------------
(* vm.runInContext: the evaluation of one source file as a whole *)

\* The text of a file is a sequence of statements.  A statement is a chain
\* of calls, each call made on the value the call before it returned; the
\* first call of a chain is made on `angular` (a module call) or on the
\* module object kept in a variable.  The statement ThrowStatement throws
\* by itself (a reference to a global the sandbox does not define).
ModuleCall(name, hasDependencies, dependencies) ==
    [op |-> "module", name |-> name, hasDependencies |-> hasDependencies,
     dependencies |-> dependencies, constructor |-> Null]

KindCall(kind, name, constructor) ==
    [op |-> kind, name |-> name, hasDependencies |-> FALSE,
     dependencies |-> <<>>, constructor |-> constructor]

ThrowStatement == <<[op |-> "throw", name |-> Null, hasDependencies |-> FALSE,
                     dependencies |-> <<>>, constructor |-> Null]>>

NoOpKinds == {"value", "constant", "decorator", "animation", "filter"}

\* the calls that return sandbox.angular.module; every other one returns undefined
ReturnsModule(call) == call.op \in {"module", "config", "run"}

\* the part of the state a sandbox call works on
Sandbox(ms, keys, current, declared) ==
    [modules |-> ms, order |-> keys, currentModuleName |-> current, declaredIn |-> declared]

\* one call of the sandbox made while `file` is evaluated
evalCall(sb, call, file) ==
    IF call.op = "module"
    THEN Sandbox(angularModule(sb.modules, call.name, call.hasDependencies,
                               call.dependencies, file),
                 KeysWith(sb.order, call.name),
                 call.name,
                 [m \in DOMAIN sb.declaredIn \cup {call.name} |->
                    IF m = call.name
                    THEN IF call.hasDependencies THEN file
                         ELSE IF call.name \in DOMAIN sb.declaredIn
                              THEN sb.declaredIn[call.name] ELSE Null
                    ELSE sb.declaredIn[m]])
    ELSE IF call.op \in Kinds
    THEN [sb EXCEPT !.modules = validateConstructor(sb.modules, sb.currentModuleName,
                                                    call.name, call.constructor).modules]
    ELSE sb

RECURSIVE evalChain(_, _, _, _, _)
\* the calls of one statement from the i-th on; `defined` tells whether the
\* value the next call is made on is the module object or undefined
evalChain(sb, chain, i, defined, file) ==
    IF i > Len(chain) THEN [sandbox |-> sb, thrown |-> FALSE]
    ELSE IF chain[i].op = "throw" \/ ~defined
    THEN [sandbox |-> sb, thrown |-> TRUE]
    ELSE evalChain(evalCall(sb, chain[i], file), chain, i + 1, ReturnsModule(chain[i]), file)

RECURSIVE evalStatements(_, _, _, _)
evalStatements(sb, script, i, file) ==
    IF i > Len(script) THEN [sandbox |-> sb, thrown |-> FALSE]
    ELSE LET r == evalChain(sb, script[i], 1, TRUE, file)
         IN IF r.thrown THEN r ELSE evalStatements(r.sandbox, script, i + 1, file)

\* faulty variant of runInContext: what the file did is undone when it throws
runInContextUndo(sb, script, file) ==
    LET r == evalStatements(sb, script, 1, file)
    IN IF r.thrown THEN [sandbox |-> sb, thrown |-> TRUE] ELSE r

\* try { vm.runInContext(file, angularModuleSandbox) } catch (e) { }
runInContext(sb, script, file) == evalStatements(sb, script, 1, file)

\* the scan is over once the built graph is handed to the inject validator
Scanning == result.op # "validateInjects"

\* filenames.forEach(function(filename) {...}): one file is read and evaluated
EvaluateFile(f, script) ==
    /\ Scanning
    /\ currentFileName' = f
    /\ LET r == runInContext(Sandbox(modules, order, currentModuleName, declaredIn), script, f)
       IN /\ modules' = r.sandbox.modules
          /\ order' = r.sandbox.order
          /\ currentModuleName' = r.sandbox.currentModuleName
          /\ declaredIn' = r.sandbox.declaredIn
          /\ result' = [op |-> "runInContext", arg |-> f,
                        outcome |-> IF r.thrown THEN "caught" ELSE "completed",
                        value |-> script]
    /\ UNCHANGED <<envVars, cliVars>>

ArrayP == ArrayConstructor(<<"q", FN>>)
ArrayQ == ArrayConstructor(<<FN>>)

Statements ==
    {<<ModuleCall("A", TRUE, <<>>)>>,
     <<ModuleCall("B", TRUE, <<"A">>), KindCall("factory", "p", ArrayP)>>,
     <<ModuleCall("A", FALSE, <<>>), KindCall("config", Null, Null),
       KindCall("factory", "p", ArrayP), KindCall("factory", "q", ArrayQ)>>,
     <<KindCall("service", "q", ArrayQ)>>,
     ThrowStatement}

\* files of at most one statement, and files that throw after one statement
Scripts ==
    {<<>>} \cup {<<s>> : s \in Statements}
           \cup {<<s, ThrowStatement>> : s \in Statements \ {ThrowStatement}}

\* bundle.validateInjects() on the graph the scan returned
ValidateBuilt ==
    /\ Scanning
    /\ result' = [op |-> "validateInjects", arg |-> Null, outcome |-> "return",
                  value |-> validateInjects(modules, order)]
    /\ UNCHANGED <<modules, order, currentModuleName, currentFileName, declaredIn>>
    /\ UNCHANGED <<envVars, cliVars>>

NextScan ==
    \/ \E f \in Files, script \in Scripts : EvaluateFile(f, script)
    \/ ValidateBuilt

SpecScan == InitBuild /\ [][NextScan]_vars

---------------------------------------------------------------------------
(* Files of one chained declaration *)

\* the calls chained after angular.module(name, deps)
ChainedCalls ==
    {KindCall("factory", "p", ArrayP), KindCall("factory", "q", ArrayQ),
     KindCall("value", "v", Null)}

\* angular.module(name, []).k1(..).k2(..) as the only statement of a file
ChainScripts ==
    {<<(<<ModuleCall("A", TRUE, <<>>)>> \o chain)>> : chain \in SeqsUpTo(ChainedCalls, 2)}

NextChains == \E f \in Files, script \in ChainScripts : EvaluateFile(f, script)

SpecChains == InitBuild /\ [][NextChains]_vars

---------------------------------------------------------------------------
(* Inject validation on a built graph *)

\* provider lists a build can leave in a module: pairwise distinct names
ProviderLists(injectLists) ==
    {<<>>}
    \cup {<<ProviderConfig(n, i)>> : n \in ProviderNames, i \in injectLists}
    \cup UNION {{<<ProviderConfig(n1, i1), ProviderConfig(n2, i2)>> :
                    n2 \in ProviderNames \ {n1}, i1 \in injectLists, i2 \in injectLists} :
                 n1 \in ProviderNames}

InjectLists == SeqsUpTo(InjectNames, MaxInjects)

\* provider lists of the modules around the one whose injects vary freely
PlainProviderLists ==
    {<<>>, <<ProviderConfig("q", <<>>)>>, <<ProviderConfig("p", <<"q">>)>>,
     <<ProviderConfig("p", <<"q">>), ProviderConfig("q", <<>>)>>}

InjectOrders == {<<"A", "B", "C">>, <<"B", "A", "C">>, <<"B", "C", "A">>}

InitInjects ==
    /\ order \in InjectOrders
    /\ \E dA \in {<<>>, <<"B">>, <<"C">>, <<"B", "C">>}, pA \in ProviderLists(InjectLists),
          dB \in {<<>>, <<"A">>}, pB \in PlainProviderLists,
          dC \in {<<>>, <<"A">>}, pC \in PlainProviderLists :
         modules = [m \in ModNames |->
                      [GraphModule(CASE m = "A" -> dA [] m = "B" -> dB [] OTHER -> dC)
                         EXCEPT !.providers = CASE m = "A" -> pA [] m = "B" -> pB [] OTHER -> pC]]
    /\ currentModuleName = order[Len(order)]
    /\ currentFileName = "f1"
    /\ declaredIn = [m \in DOMAIN modules |-> "f1"]
    /\ result = NoResult
    /\ InitEnv

ValidateInjects ==
    /\ result.op = "none"
    /\ result' = [op |-> "validateInjects", arg |-> Null, outcome |-> "return",
                  value |-> validateInjects(modules, order)]
    /\ UNCHANGED <<modules, order, currentModuleName, currentFileName, declaredIn>>
    /\ UNCHANGED <<envVars, cliVars>>

NextInjects == ValidateInjects

SpecInjects == InitInjects /\ [][NextInjects]_vars

---------------------------------------------------------------------------
(* importsWriter.writeImports and the command-line flow *)

\* The text of a template is a sequence of tokens: each label, each ng-app
\* attribute and each other piece of text is one token, and offsets count
\* tokens.  White space (the '\n' around the block, htmlBeautify) is not
\* part of the text.  config.static is an empty array.
Token(t, v) == [t |-> t, v |-> v]
NgApp(name) == Token("ng-app", <<name>>)
modulesJsStartLabel == Token("begin", <<>>)
modulesJsEndLabel == Token("end", <<>>)
Text == Token("text", <<>>)

\* dependencies.map(...).join: the rendered block of imports
dependenciesImports(dependencies) == Token("imports", dependencies)

\* file.match(/ng-app="(.*?)"/): the captured name of the first ng-app
\* attribute, Null without a match
mainModuleMatch(file) ==
    LET I == {i \in 1..Len(file) : file[i].t = "ng-app"}
    IN IF I = {} THEN Null
       ELSE file[CHOOSE i \in I : \A j \in I : i <= j].v[1]

\* String.prototype.substring(from, to) with 0 <= from
substring(file, from, to) == SubSeq(file, from + 1, Min(to, Len(file)))

\* function insertBetweenLabels(startLabel, endLabel, content, file)
insertBetweenLabels(startLabel, endLabel, content, file) ==
    LET start == indexOf(file, startLabel)
        end == indexOf(file, endLabel)
    IN IF start <= 0
       THEN [thrown |-> TRUE, file |-> file]
       ELSE IF end <= 0
       THEN [thrown |-> TRUE, file |-> file]
       ELSE [thrown |-> FALSE,
             file |-> (substring(file, 0, start + 1) \o <<content>>)
                          \o substring(file, end, Len(file))]

\* faulty variant of writeImports: when the dependencies cannot be resolved
\* the main module is imported alone
writeImportsIgnoreCycle(file, ms, modulesNames) ==
    LET mainModuleName == mainModuleMatch(file)
    IN IF mainModuleName = Null \/ mainModuleName = ""
       THEN [outcome |-> "Error: ng-app not found", file |-> file]
       ELSE IF mainModuleName \notin DOMAIN ms
       THEN [outcome |-> "Error: module not found", file |-> file]
       ELSE LET dependencies == resolveDependencies(mainModuleName, ms, modulesNames)
                r == insertBetweenLabels(modulesJsStartLabel, modulesJsEndLabel,
                                         dependenciesImports(IF dependencies.outcome = "return"
                                                             THEN dependencies.value
                                                             ELSE <<mainModuleName>>), file)
            IN IF r.thrown
               THEN [outcome |-> "Error: label not found", file |-> file]
               ELSE [outcome |-> "written", file |-> r.file]

\* module.exports.writeImports up to fs.writeFileSync: the outcome and the
\* text that is written
writeImports(file, ms, modulesNames) ==
    LET mainModuleName == mainModuleMatch(file)
    IN IF mainModuleName = Null \/ mainModuleName = ""
       THEN [outcome |-> "Error: ng-app not found", file |-> file]
       ELSE IF mainModuleName \notin DOMAIN ms
       THEN [outcome |-> "Error: module not found", file |-> file]
       ELSE LET dependencies == resolveDependencies(mainModuleName, ms, modulesNames)
            IN IF dependencies.outcome # "return"
               THEN [outcome |-> "Error: circular dependency", file |-> file]
               ELSE LET r == insertBetweenLabels(modulesJsStartLabel, modulesJsEndLabel,
                                                 dependenciesImports(dependencies.value), file)
                    IN IF r.thrown
                       THEN [outcome |-> "Error: label not found", file |-> file]
                       ELSE [outcome |-> "written", file |-> r.file]

\* config.html
ConfigHtml == <<"h1", "h2">>

\* faulty variant of CliValidate: without writing, the first inject error is
\* thrown before the circular reference is looked at
CliValidateInjectsFirst ==
    /\ pc = "validate"
    /\ LET injectsErrors == IF argv.validateInjects THEN validateInjects(modules, order)
                            ELSE <<>>
           circular == findCircularReference(modules, order)
       IN IF argv.noWrite
          THEN /\ pc' = IF circular.found \/ Len(injectsErrors) > 0 THEN "abort" ELSE "exit"
               /\ result' = [op |-> "validate", arg |-> Null,
                             outcome |-> IF Len(injectsErrors) > 0 THEN "Error: inject"
                                         ELSE IF circular.found THEN "Error: circular reference"
                                         ELSE "return",
                             value |-> <<>>]
          ELSE /\ pc' = "writeImports"
               /\ result' = [op |-> "validate", arg |-> Null, outcome |-> "continue",
                             value |-> (IF circular.found THEN <<"circular reference">>
                                        ELSE <<>>)
                                       \o [i \in 1..Len(injectsErrors) |-> "inject"]]
    /\ UNCHANGED <<modules, order, currentModuleName, currentFileName, declaredIn>>
    /\ UNCHANGED <<envVars, argv, disk, written, htmlIndex>>

\* command-line.js, lines 51-72: the validations and what follows from them
CliValidate ==
    /\ pc = "validate"
    /\ LET injectsErrors == IF argv.validateInjects THEN validateInjects(modules, order)
                            ELSE <<>>
           circular == findCircularReference(modules, order)
       IN IF argv.noWrite
          THEN /\ pc' = IF circular.found \/ Len(injectsErrors) > 0 THEN "abort" ELSE "exit"
               /\ result' = [op |-> "validate", arg |-> Null,
                             outcome |-> IF circular.found THEN "Error: circular reference"
                                         ELSE IF Len(injectsErrors) > 0 THEN "Error: inject"
                                         ELSE "return",
                             value |-> <<>>]
          ELSE /\ pc' = "writeImports"
               /\ result' = [op |-> "validate", arg |-> Null, outcome |-> "continue",
                             \* what console.warn printed
                             value |-> (IF circular.found THEN <<"circular reference">>
                                        ELSE <<>>)
                                       \o [i \in 1..Len(injectsErrors) |-> "inject"]]
    /\ UNCHANGED <<modules, order, currentModuleName, currentFileName, declaredIn>>
    /\ UNCHANGED <<envVars, argv, disk, written, htmlIndex>>

\* bundle.writeImports(): one turn of config.html.forEach
WriteImports ==
    /\ pc = "writeImports"
    /\ LET filePath == ConfigHtml[htmlIndex]
           r == writeImports(disk[filePath], modules, order)
       IN /\ result' = [op |-> "writeImports", arg |-> filePath, outcome |-> r.outcome,
                        value |-> disk[filePath]]
          /\ IF r.outcome = "written"
             THEN /\ disk' = [disk EXCEPT ![filePath] = r.file]
                  /\ written' = Append(written, filePath)
                  /\ htmlIndex' = htmlIndex + 1
                  /\ pc' = IF htmlIndex = Len(ConfigHtml) THEN "makeJson" ELSE "writeImports"
             ELSE /\ pc' = "abort"
                  /\ UNCHANGED <<disk, written, htmlIndex>>
    /\ UNCHANGED <<modules, order, currentModuleName, currentFileName, declaredIn>>
    /\ UNCHANGED <<envVars, argv>>

\* if (argv[OPTIONS.makeJson]) fs.writeFileSync(configName + '.modules.json', ...)
MakeJson ==
    /\ pc = "makeJson"
    /\ written' = IF argv.makeJson THEN Append(written, ".modules.json") ELSE written
    /\ pc' = "makeDot"
    /\ result' = [op |-> "makeJson", arg |-> Null,
                  outcome |-> IF argv.makeJson THEN "written" ELSE "skipped", value |-> <<>>]
    /\ UNCHANGED <<modules, order, currentModuleName, currentFileName, declaredIn>>
    /\ UNCHANGED <<envVars, argv, disk, htmlIndex>>

\* if (argv[OPTIONS.makeDot]) fs.writeFileSync(configName + '.dot', ...)
MakeDot ==
    /\ pc = "makeDot"
    /\ written' = IF argv.makeDot THEN Append(written, ".dot") ELSE written
    /\ pc' = "exit"
    /\ result' = [op |-> "makeDot", arg |-> Null,
                  outcome |-> IF argv.makeDot THEN "written" ELSE "skipped", value |-> <<>>]
    /\ UNCHANGED <<modules, order, currentModuleName, currentFileName, declaredIn>>
    /\ UNCHANGED <<envVars, argv, disk, htmlIndex>>

\* texts of the first template: every arrangement of up to three tokens, and
\* two with an ng-app attribute that is empty or names no module
Tokens == {NgApp("A"), modulesJsStartLabel, modulesJsEndLabel, Text}
Templates ==
    SeqsUpTo(Tokens, 3)
    \cup {<<NgApp(""), modulesJsStartLabel, modulesJsEndLabel>>,
          <<NgApp("X"), modulesJsStartLabel, modulesJsEndLabel>>}

\* texts of the second template
LaterTemplates ==
    {<<NgApp("B"), modulesJsStartLabel, modulesJsEndLabel>>,
     <<Text, modulesJsStartLabel, modulesJsEndLabel>>,
     <<NgApp("X"), modulesJsStartLabel, modulesJsEndLabel>>}

InitCli ==
    /\ \E dA \in {<<>>, <<"B">>}, dB \in {<<>>, <<"A">>}, n \in 2..3 :
         /\ order = SubSeq(KeyOrder, 1, n)
         /\ modules = [m \in {KeyOrder[i] : i \in 1..n} |->
                         [GraphModule(CASE m = "A" -> dA [] m = "B" -> dB [] OTHER -> <<>>)
                            EXCEPT !.providers =
                                CASE m = "A" -> <<ProviderConfig("p", <<"q", "r">>)>>
                                  [] m = "B" -> <<ProviderConfig("q", <<>>)>>
                                  [] OTHER -> <<ProviderConfig("r", <<>>)>>]]
    /\ currentModuleName = order[Len(order)]
    /\ currentFileName = "f1"
    /\ declaredIn = [m \in DOMAIN modules |-> "f1"]
    /\ result = NoResult
    /\ builder = "modulesBuilder"
    /\ validateProviderConstructor = TRUE
    /\ argv \in [noWrite : BOOLEAN, validateInjects : BOOLEAN, makeJson : BOOLEAN,
                  makeDot : BOOLEAN]
    /\ \E t1 \in Templates, t2 \in LaterTemplates : disk = [h \in {"h1", "h2"} |->
                                                            IF h = "h1" THEN t1 ELSE t2]
    /\ written = <<>>
    /\ pc = "validate"
    /\ htmlIndex = 1

NextCli ==
    \/ CliValidate
    \/ WriteImports
    \/ MakeJson
    \/ MakeDot

SpecCli == InitCli /\ [][NextCli]_vars

---------------------------------------------------------------------------
(* Graph vocabulary used by the properties *)

Range(s) == {s[i] : i \in 1..Len(s)}

NoDuplicates(s) == \A i, j \in 1..Len(s) : s[i] = s[j] => i = j

\* dependency edges whose target is a module of the graph
Edges(ms, m) == Range(ms[m].dependencies) \cap DOMAIN ms

RECURSIVE Closure(_, _, _)
Closure(ms, S, k) ==
    IF k = 0 THEN S
    ELSE Closure(ms, S \cup UNION {Edges(ms, x) : x \in S}, k - 1)

\* modules reachable from m by one or more edges
Reachable(ms, m) == Closure(ms, Edges(ms, m), Cardinality(DOMAIN ms))

Acyclic(ms) == \A m \in DOMAIN ms : m \notin Reachable(ms, m)

Resolved == result.op = "resolveDependencies" /\ result.outcome = "return"

Trailed == result.op = "findCircularReference" /\ result.outcome = "trail"

---------------------------------------------------------------------------
(* Properties of the resolver and the cycle detector (SpecGraph) *)

C2_TopologicalOrder ==
    Resolved =>
        \A i \in 1..Len(result.value) :
            \A d \in Edges(modules, result.value[i]) :
                \E j \in 1..(i-1) : result.value[j] = d

C2_Witness ==
    /\ Resolved
    /\ result.arg = "A"
    /\ DOMAIN modules = {"A", "B", "C"}
    /\ modules["A"].dependencies = <<"B", "C">>
    /\ "C" \in Edges(modules, "B")
    /\ result.value = <<"C", "B", "A">>

C4_ClosedWalk ==
    Trailed =>
        /\ \A i \in 1..(Len(result.value) - 1) :
               result.value[i+1] \in Edges(modules, result.value[i])
        /\ result.value[1] = result.value[Len(result.value)]

\* C4 (amended): every consecutive pair of a returned trail is a dependency
\* edge between modules of G and the last element equals an earlier element
\* of the trail, so the trail ends with a closed walk.
C4_EndsWithClosedWalk ==
    Trailed =>
        /\ \A i \in 1..(Len(result.value) - 1) :
               /\ result.value[i] \in DOMAIN modules
               /\ result.value[i+1] \in Edges(modules, result.value[i])
        /\ \E i \in 1..(Len(result.value) - 1) :
               result.value[i] = result.value[Len(result.value)]

C4_Witness ==
    /\ Trailed
    /\ Len(result.value) = 4
    /\ result.value[1] # result.value[4]
    /\ result.value[2] = result.value[4]

---------------------------------------------------------------------------
(* Properties of the inject validator (SpecInjects) *)

Validated == result.op = "validateInjects"

\* module Y declares a provider named q
Declares(ms, Y, q) == \E i \in 1..Len(ms[Y].providers) : ms[Y].providers[i].name = q

\* the module the provider index gives for q: the last one, in graph
\* iteration order, that declares a provider named q
Owner(ms, keys, q) ==
    keys[CHOOSE i \in 1..Len(keys) :
            /\ Declares(ms, keys[i], q)
            /\ \A j \in (i+1)..Len(keys) : ~Declares(ms, keys[j], q)]

Occurrences(s, e) == Cardinality({i \in 1..Len(s) : s[i] = e})

---------------------------------------------------------------------------
(* Properties of the module calls of a scan (SpecBuild) *)

Without(s, e) == SelectSeq(s, LAMBDA x : x # e)

RECURSIVE SumSizes(_)
SumSizes(S) ==
    IF S = {} THEN 0
    ELSE LET f == CHOOSE x \in S : TRUE IN currentFileSize(f) + SumSizes(S \ {f})

\* C7: a module call with a dependency list for an existing module replaces
\* that module's dependency list and leaves its providers alone; its file
\* list keeps every previous entry in order, only the declaring file may be
\* added or moved to the front; its size grows by the declaring file's size
\* exactly if that file was new; every other module is unchanged.
C7_RedeclarationFrame ==
    [][(result'.op = "module" /\ result'.outcome = "redeclaration") =>
        LET name == result'.arg
            file == currentFileName
            old == modules[name]
            new == modules'[name]
        IN /\ DOMAIN modules' = DOMAIN modules
           /\ order' = order
           /\ new.dependencies = result'.value
           /\ new.providers = old.providers
           /\ Without(new.files, file) = Without(old.files, file)
           /\ Range(new.files) = Range(old.files) \cup {file}
           /\ (file \notin Range(old.files) => new.files[1] = file)
           /\ new.size = old.size + (IF file \in Range(old.files) THEN 0
                                     ELSE currentFileSize(file))
           /\ \A m \in DOMAIN modules \ {name} : modules'[m] = modules[m]
      ]_vars

C7_Witness ==
    /\ result.op = "module"
    /\ result.outcome = "redeclaration"
    /\ result.value = <<"A", "B">>
    /\ modules[result.arg].providers # <<>>
    /\ modules[result.arg].files = <<"f2", "f1">>
    /\ currentFileName = "f2"
    /\ \E m \in DOMAIN modules \ {result.arg} : modules[m].providers # <<>>

\* C8: after any sequence of module calls, the first entry of the file list
\* of every module that has been declared is the file of its declaration
\* (the file that supplied its current dependency list).
C8_DeclaringFileFirst ==
    \A m \in DOMAIN modules :
        declaredIn[m] # Null => modules[m].files[1] = declaredIn[m]

\* C9: after any sequence of module calls each file identifier occurs at
\* most once in a module's file list and the module's size is the sum of the
\* sizes of the files in that list.
C9_FilesOnceSizeOnce ==
    \A m \in DOMAIN modules :
        /\ NoDuplicates(modules[m].files)
        /\ modules[m].size = SumSizes(Range(modules[m].files))

C9_Witness ==
    /\ result.op = "module"
    /\ result.outcome = "reference"
    /\ Len(modules[result.arg].files) = 2
    /\ modules[result.arg].files[1] = currentFileName
    /\ declaredIn[result.arg] = Null

---------------------------------------------------------------------------
(* Properties of the provider declarations of a scan (SpecProviders) *)

Recorded == result.op \in Kinds /\ result.outcome = "recorded"

LastProvider == modules[currentModuleName].providers[Len(modules[currentModuleName].providers)]

\* C10: every recorded factory/service/controller/directive declaration
\* whose constructor is an array [n1, ..., nk, fn] records a provider whose
\* injects are exactly [n1, ..., nk], in that order.
C10_InjectsAreArrayFront ==
    (/\ Recorded
     /\ result.value.type = "array"
     /\ Len(result.value.elems) >= 1
     /\ result.value.elems[Len(result.value.elems)] = FN) =>
        /\ LastProvider.name = result.arg
        /\ LastProvider.injects = [i \in 1..(Len(result.value.elems) - 1) |-> result.value.elems[i]]

C10_Witness ==
    /\ Recorded
    /\ result.op = "directive"
    /\ result.value = ArrayConstructor(<<"q", "r", FN>>)
    /\ Len(modules[currentModuleName].providers) = 2

\* names of the providers recorded for module m
ProviderNamesOf(ms, m) == {ms[m].providers[i].name : i \in 1..Len(ms[m].providers)}

DistinctProviderNames(ms) ==
    \A m \in DOMAIN ms : \A i, j \in 1..Len(ms[m].providers) :
        ms[m].providers[i].name = ms[m].providers[j].name => i = j

MinifyReady(constructor) ==
    constructor.type = "array" \/ (constructor.type = "function" /\ constructor.length = 0)

C13_OwnerIsLatestModule ==
    [][/\ result'.op = "module" => currentModuleName' = result'.arg
       /\ result'.op # "module" => currentModuleName' = currentModuleName
       /\ (result'.op \in Kinds /\ result'.outcome = "recorded") =>
             /\ currentModuleName \in DOMAIN modules
             /\ \E injects \in SeqsUpTo(InjectNames, MaxInjects) :
                  modules' = [modules EXCEPT ![currentModuleName].providers =
                                 Append(@, ProviderConfig(result'.arg, injects))]
      ]_vars

C13_Witness ==
    /\ Recorded
    /\ Cardinality(DOMAIN modules) = 2
    /\ currentFileName \notin Range(modules[currentModuleName].files)
    /\ LastProvider.name = result.arg
    /\ \A m \in DOMAIN modules \ {currentModuleName} : modules[m].providers = <<>>

---------------------------------------------------------------------------
(* Properties of the evaluation of whole files (SpecScan) *)

Caught == result.op = "runInContext" /\ result.outcome = "caught"

\* the calls of a chain that are made: up to the first call made on undefined
RECURSIVE ChainCalls(_, _)
ChainCalls(chain, i) ==
    IF i > Len(chain) \/ chain[i].op = "throw" THEN <<>>
    ELSE IF ReturnsModule(chain[i]) THEN <<chain[i]>> \o ChainCalls(chain, i + 1)
    ELSE <<chain[i]>>

ChainThrows(chain) == Len(ChainCalls(chain, 1)) < Len(chain)

\* the calls a script makes before its first throw
RECURSIVE CallsMade(_, _)
CallsMade(script, i) ==
    IF i > Len(script) THEN <<>>
    ELSE IF ChainThrows(script[i]) THEN ChainCalls(script[i], 1)
    ELSE script[i] \o CallsMade(script, i + 1)

RECURSIVE ApplyCalls(_, _, _, _)
ApplyCalls(sb, calls, i, file) ==
    IF i > Len(calls) THEN sb
    ELSE ApplyCalls(evalCall(sb, calls[i], file), calls, i + 1, file)

\* C14 (as stated): after a file whose evaluation throws, the graph and
\* the current module are what they were before the file.
C14_ThrowingFileContributesNothing ==
    [][(result'.op = "runInContext" /\ result'.outcome = "caught") =>
        /\ modules' = modules
        /\ order' = order
        /\ currentModuleName' = currentModuleName
      ]_vars

\* C14 (amended): after a file whose evaluation throws, the graph and the
\* current module are those left by the calls the file made before the
\* throw, and the scan can go on with any next file.
C14_ThrowingFileKeepsCallsBeforeThrow ==
    /\ [][(result'.op = "runInContext" /\ result'.outcome = "caught") =>
            LET sb == ApplyCalls(Sandbox(modules, order, currentModuleName, declaredIn),
                                 CallsMade(result'.value, 1), 1, result'.arg)
            IN /\ modules' = sb.modules
               /\ order' = sb.order
               /\ currentModuleName' = sb.currentModuleName
          ]_vars
    /\ [](Caught => \A f \in Files : ENABLED EvaluateFile(f, <<>>))

C14_Witness ==
    /\ Caught
    /\ result.value = <<<<ModuleCall("B", TRUE, <<"A">>), KindCall("factory", "p", ArrayP)>>,
                        ThrowStatement>>
    /\ modules["B"].files = <<result.arg>>
    /\ modules["B"].providers = <<ProviderConfig("p", <<"q">>)>>
    /\ currentModuleName = "B"

\* the file just evaluated made a provider-kind call and no module has been
\* declared by it or before it
Orphaned ==
    /\ result.op = "runInContext"
    /\ currentModuleName = Null
    /\ \E i \in 1..Len(CallsMade(result.value, 1)) : CallsMade(result.value, 1)[i].op \in Kinds

---------------------------------------------------------------------------
(* Properties of the constructor validation of the three sources (SpecSandboxes) *)

\* the source validates constructors: always, except part_003 without its flag
Strict == builder # "part_003" \/ validateProviderConstructor

Diagnostic == Printed \cup Thrown

\* C11 (as stated): a declaration whose constructor is a bare function is
\* rejected with a diagnostic when validation is strict and ignored when it
\* is lenient; in neither mode does it change the graph.
C11_BareFunctionNeverRecorded ==
    [][(result'.op \in Kinds /\ result'.value.type = "function") =>
        /\ modules' = modules
        /\ Strict => result'.outcome \in Diagnostic
        /\ ~Strict => result'.outcome = "ignored"
      ]_vars

\* C11 (amended): the same for a bare function that declares parameters and,
\* in modules.js and part_003, for every bare function; in modulesBuilder.js
\* a bare function without parameters is validated like an array
\* constructor without names and, when recorded, is a provider with empty
\* injects appended to the current module.
C11_BareFunctionWithParametersNeverRecorded ==
    [][(result'.op \in Kinds /\ result'.value.type = "function") =>
        IF result'.value.length > 0 \/ builder # "modulesBuilder"
        THEN /\ modules' = modules
             /\ Strict => result'.outcome \in Diagnostic
             /\ ~Strict => result'.outcome = "ignored"
        ELSE /\ result'.outcome \in {"recorded", "defined before module", "duplicate"}
             /\ result'.outcome # "recorded" => modules' = modules
             /\ result'.outcome = "recorded" =>
                  modules' = [modules EXCEPT ![currentModuleName].providers =
                                 Append(@, ProviderConfig(result'.arg, <<>>))]
      ]_vars

C11_Witness ==
    /\ result.op = "factory"
    /\ result.value = FunctionConstructor(0)
    /\ builder = "modulesBuilder"
    /\ result.outcome = "recorded"
    /\ Len(modules[currentModuleName].providers) = 2

---------------------------------------------------------------------------
(* Properties of the command-line flow (SpecCli) *)

\* C16: when the validation step finds a circular reference, then with
\* no-write the run aborts with the circular-reference error (whatever the
\* inject errors are) and nothing has been or will be written; without
\* no-write the circular reference is the first warning printed and the run
\* goes on to the writing of the imports.
C16_CycleAdvisoryOrFatal ==
    /\ [][(result'.op = "validate" /\ findCircularReference(modules, order).found) =>
            IF argv.noWrite
            THEN /\ pc' = "abort"
                 /\ result'.outcome = "Error: circular reference"
                 /\ written' = <<>> /\ disk' = disk
            ELSE /\ pc' = "writeImports"
                 /\ result'.outcome = "continue"
                 /\ Len(result'.value) >= 1 /\ result'.value[1] = "circular reference"
          ]_vars
    /\ []((pc = "abort" /\ result.op = "validate") => (written = <<>> /\ ~ENABLED NextCli))

C16_Witness ==
    /\ pc = "abort"
    /\ result.op = "validate"
    /\ result.outcome = "Error: circular reference"
    /\ argv.noWrite /\ argv.validateInjects /\ argv.makeJson /\ argv.makeDot
    /\ Len(validateInjects(modules, order)) > 0

\* C17: when writeImports fails because a template has no ng-app attribute
\* or names a module the graph does not have, no template has been written.
C17_NoTemplateWrittenBeforeNgAppError ==
    (/\ pc = "abort"
     /\ result.op = "writeImports"
     /\ result.outcome \in {"Error: ng-app not found", "Error: module not found"}) =>
        written = <<>>

\* C18: a splice made by writeImports fails with the label error exactly if
\* the begin label or the end label does not occur in the text of the file.
C18_SpliceFailsIffLabelAbsent ==
    (result.op = "writeImports" /\ result.outcome \in {"written", "Error: label not found"}) =>
        (result.outcome = "Error: label not found"
            <=> (modulesJsStartLabel \notin Range(result.value)
                    \/ modulesJsEndLabel \notin Range(result.value)))

---------------------------------------------------------------------------
(* Further properties of the resolver (SpecGraph) *)

RECURSIVE KeepFirst(_)
KeepFirst(s) ==
    IF s = <<>> THEN <<>>
    ELSE LET front == SubSeq(s, 1, Len(s) - 1)
         IN IF s[Len(s)] \in Range(front) THEN KeepFirst(front)
            ELSE Append(KeepFirst(front), s[Len(s)])

\* post-order expansion of a dependency list on an acyclic graph: for each
\* in-graph dependency in order, its own expansion and then its name
RECURSIVE PostOrder(_, _)
PostOrder(ms, deps) ==
    IF deps = <<>> THEN <<>>
    ELSE IF Head(deps) \in DOMAIN ms
         THEN (PostOrder(ms, ms[Head(deps)].dependencies) \o <<Head(deps)>>)
                  \o PostOrder(ms, Tail(deps))
         ELSE PostOrder(ms, Tail(deps))

---------------------------------------------------------------------------
(* Further properties of the cycle detector (SpecGraph) *)

\* length of the longest trail any descent of doFind from `module` can hold,
\* the name that ends a descent included
RECURSIVE TrailDepth(_, _, _)
TrailDepth(ms, module, trail) ==
    IF module \in Range(trail) \/ Edges(ms, module) = {}
    THEN Len(trail) + 1
    ELSE LET D == {TrailDepth(ms, dep, trail \o <<module>>) : dep \in Edges(ms, module)}
         IN CHOOSE d \in D : \A e \in D : e <= d

\* C21: on every graph findCircularReference ends with a result; no
\* descent holds a trail longer than the number of modules plus one, and
\* neither is the trail that is returned.
C21_DetectorTerminates ==
    /\ result.op = "none" => ENABLED FindCircularReference
    /\ \A m \in DOMAIN modules :
          TrailDepth(modules, m, <<>>) <= Cardinality(DOMAIN modules) + 1
    /\ result.op = "findCircularReference" =>
          /\ result.outcome \in {"trail", "undefined"}
          /\ Len(result.value) <= Cardinality(DOMAIN modules) + 1
          /\ Range(result.value) \subseteq DOMAIN modules

C21_Witness ==
    /\ Trailed
    /\ Cardinality(DOMAIN modules) = 3
    /\ Len(result.value) = 4
    /\ result.value[1] = "A"

---------------------------------------------------------------------------
(* Further properties of the scan (SpecBuild, SpecScan, SpecSandboxes, SpecProviders) *)

IsPrefix(a, b) == Len(a) <= Len(b) /\ SubSeq(b, 1, Len(a)) = a

\* C22: in every step of a scan the set of module names only grows, the
\* set of files of each module only grows, its size does not decrease and
\* its provider list is only appended to.
C22_NothingDeleted ==
    [][/\ DOMAIN modules \subseteq DOMAIN modules'
       /\ IsPrefix(order, order')
       /\ \A m \in DOMAIN modules :
            /\ Range(modules[m].files) \subseteq Range(modules'[m].files)
            /\ modules[m].size <= modules'[m].size
            /\ IsPrefix(modules[m].providers, modules'[m].providers)
      ]_vars

C22_Witness ==
    /\ result.op = "module"
    /\ result.outcome = "redeclaration"
    /\ result.value = <<>>
    /\ modules[result.arg].providers # <<>>
    /\ Len(modules[result.arg].files) = 2
    /\ modules[result.arg].files[1] = currentFileName
    /\ declaredIn[result.arg] = currentFileName

\* the module names a file's text passes to angular.module
ModuleNamesOf(script) ==
    {script[i][j].name : <<i, j>> \in {ij \in (1..Len(script)) \X (1..4) :
                                        /\ ij[2] <= Len(script[ij[1]])
                                        /\ script[ij[1]][ij[2]].op = "module"}}

\* what a file contributes when it is evaluated by a sandbox that has seen
\* no other file
Alone(script, file) == runInContext(Sandbox(<<>>, <<>>, Null, <<>>), script, file).sandbox

\* C23: a file of a later source root whose module names are disjoint from
\* the module names built so far contributes the modules, file lists and
\* providers it contributes when evaluated alone, and leaves the modules
\* of the earlier roots as they were, whatever the earlier roots contained.
C23_RootsAreIndependent ==
    [][(/\ result'.op = "runInContext"
        /\ ModuleNamesOf(result'.value) \cap DOMAIN modules = {}) =>
          /\ \A m \in DOMAIN modules : modules'[m] = modules[m]
          /\ DOMAIN modules' \ DOMAIN modules = DOMAIN Alone(result'.value, result'.arg).modules
          /\ \A m \in DOMAIN modules' \ DOMAIN modules :
                modules'[m] = Alone(result'.value, result'.arg).modules[m]
      ]_vars

\* C24: a declaration that gets a diagnostic leaves the graph unchanged and
\* does not interrupt the scan: after it, the same file can go on with any
\* further declaration and module call, and the scan with any next file.
C24_DiagnosticNeverInterrupts ==
    /\ [][(result'.op \in Kinds /\ result'.outcome \in Diagnostic) => modules' = modules]_vars
    /\ []((result.op \in Kinds /\ result.outcome \in Diagnostic) =>
            /\ \A name \in ProviderNames, constructor \in SandboxConstructors :
                  ENABLED SandboxDeclare("factory", name, constructor)
            /\ \A name \in BuildNames : ENABLED SandboxModule(name, TRUE, <<>>)
            /\ \A f \in Files : ENABLED SandboxNextFile(f))

---------------------------------------------------------------------------
(* Properties of the provider kind (SpecProviderKind) *)

\* a provider declaration whose constructor is a function that constructs
\* an object with a $get member
HasGet(constructor) == ~constructor.isArray /\ ~constructor.throws /\ constructor.get # Undefined

\* C25 (as stated): a provider declaration whose constructed object has a
\* $get member changes the graph and gets the outcome that a factory
\* declaration of the same name with $get as its constructor would.
C25_GetValidatedLikeFactory ==
    [][(result'.op = "provider" /\ HasGet(result'.value)) =>
        LET r == validateConstructor(modules, currentModuleName, result'.arg, result'.value.get)
        IN modules' = r.modules /\ result'.outcome = r.outcome
      ]_vars

\* C25 (amended): the same holds only for a $get member with at least one
\* own enumerable key (a non-empty array, an object with keys); a $get
\* without one (a function, an empty array, an empty object) is skipped: no
\* provider is recorded and nothing is printed.  A constructor that throws
\* and an object without $get get a diagnostic of their own, and the array
\* form of the provider's constructor is first validated like a factory
\* constructor under the name with "Provider" appended.
C25_GetWithKeysValidatedLikeFactory ==
    [][result'.op = "provider" =>
        LET c == result'.value
            first == IF c.isArray
                     THEN validateConstructor(modules, currentModuleName,
                                              result'.arg \o "Provider",
                                              ArrayConstructor(c.injects \o <<FN>>)).modules
                     ELSE modules
            r == validateConstructor(first, currentModuleName, result'.arg, c.get)
        IN IF c.throws THEN modules' = first /\ result'.outcome = "unable to create"
           ELSE IF c.get = Undefined THEN modules' = first /\ result'.outcome = "missing $get"
           ELSE IF c.get.type = "function" \/ c.get.elems = <<>>
           THEN modules' = first /\ result'.outcome = "skipped"
           ELSE modules' = r.modules /\ result'.outcome = r.outcome
      ]_vars

C25_Witness ==
    /\ result.op = "provider"
    /\ HasGet(result.value)
    /\ result.value.get = FunctionConstructor(0)
    /\ result.outcome = "skipped"
    /\ currentModuleName # Null
    /\ modules[currentModuleName].providers = <<ProviderConfig("pProvider", <<"r">>)>>

---------------------------------------------------------------------------
(* Properties of the standalone generator (SpecGenerator) *)

\* C26: on every graph the resolution of the main module's dependencies
\* ends by itself: it returns a list, or fails, without a recursion deeper
\* than the graph has modules.
C26_GeneratorResolutionEnds ==
    result.op = "resolveDependenciesDeep" => result.outcome # "overflow"

---------------------------------------------------------------------------
(* Shape of the trail of the cycle detector (SpecGraph) *)

\* some cycle of the graph can be reached from m
ReachesCycle(ms, m) == \E x \in Reachable(ms, m) \cup {m} : x \in Reachable(ms, x)

\* C27: the first element of a returned trail is the earliest module, in
\* iteration order, from which a cycle can be reached; the elements before
\* the last are pairwise distinct; the last element equals exactly one of
\* them.
C27_TrailShape ==
    Trailed =>
        LET trail == result.value
            n == Len(trail)
        IN /\ n >= 2
           /\ \E i \in 1..Len(order) :
                 /\ trail[1] = order[i]
                 /\ ReachesCycle(modules, order[i])
                 /\ \A j \in 1..(i-1) : ~ReachesCycle(modules, order[j])
           /\ NoDuplicates(SubSeq(trail, 1, n - 1))
           /\ Cardinality({i \in 1..(n-1) : trail[i] = trail[n]}) = 1

C27_Witness ==
    /\ Trailed
    /\ result.value = <<"B", "C", "B">>
    /\ Edges(modules, "A") = {}
    /\ order = <<"A", "B", "C">>

---------------------------------------------------------------------------
(* Injects of a module's own providers (SpecInjects) *)

\* diagnostic e reports a module for injecting a name it declares itself
OwnInject(e) == e.module \in DOMAIN modules /\ Declares(modules, e.module, e.inject)

\* C28 (as stated): no diagnostic of validateInjects reports a module for
\* injecting a name that the module itself declares.
C28_OwnInjectNeverReported ==
    Validated => \A i \in 1..Len(result.value) : ~OwnInject(result.value[i])

\* C28 (amended): no diagnostic reports a module for injecting a name of
\* which it is the last declaring module in iteration order (so none when
\* it is the only declaring module).  A module that declares q and injects
\* q is reported exactly when a later module in iteration order declares q
\* too and the last such module is not in its dependency list; the
\* diagnostic names that last module.
C28_OwnInjectReportedIffLaterOwner ==
    Validated =>
        /\ \A i \in 1..Len(result.value) :
              /\ Owner(modules, order, result.value[i].inject) # result.value[i].module
              /\ result.value[i].dependency = Owner(modules, order, result.value[i].inject)
        /\ \A X \in DOMAIN modules : \A pi \in 1..Len(modules[X].providers) :
              \A q \in Range(modules[X].providers[pi].injects) :
                 Declares(modules, X, q) =>
                    ((\E i \in 1..Len(result.value) :
                         /\ result.value[i].module = X
                         /\ result.value[i].provider = modules[X].providers[pi].name
                         /\ result.value[i].inject = q)
                     <=> (\E j, k \in 1..Len(order) :
                            /\ order[j] = X /\ j < k
                            /\ order[k] = Owner(modules, order, q)
                            /\ order[k] \notin Range(modules[X].dependencies)))

C28_Witness ==
    /\ Validated
    /\ \E i \in 1..Len(result.value) :
          /\ OwnInject(result.value[i])
          /\ result.value[i].module = "A"
          /\ result.value[i].provider = "p"
          /\ result.value[i].inject = "q"
          /\ result.value[i].dependency = "C"
    /\ Declares(modules, "B", "q")
    /\ "B" \in Range(modules["A"].dependencies)

---------------------------------------------------------------------------
(* Properties of chained declarations (SpecChains) *)

\* the file is one statement: a module declaration followed by chained
\* provider-kind and no-op-kind calls
IsChain(script) ==
    /\ Len(script) = 1
    /\ Len(script[1]) >= 2
    /\ script[1][1].op = "module" /\ script[1][1].hasDependencies
    /\ \A i \in 2..Len(script[1]) : script[1][i].op \in Kinds \cup NoOpKinds

\* C29: the evaluation of a file of one chained declaration leaves the
\* graph that its calls, applied one after the other, produce: n array-form
\* factory declarations with distinct names chained after a module
\* declaration are n providers of that module.
C29_EveryChainedCallApplied ==
    [][(result'.op = "runInContext" /\ IsChain(result'.value)) =>
        LET sb == ApplyCalls(Sandbox(modules, order, currentModuleName, declaredIn),
                             result'.value[1], 1, result'.arg)
        IN modules' = sb.modules
      ]_vars

---------------------------------------------------------------------------
(* Cyclic graphs in the command-line flow (SpecCli) *)

\* C30: when the built graph has a cycle no step of the run writes a file:
\* the templates keep their text and nothing is recorded as written; with
\* no-write the run aborts in the validation, otherwise it aborts in the
\* first writeImports call, whose resolution throws when neither the ng-app
\* attribute nor the main module is missing.
C30_NoTemplateWrittenOnCycle ==
    /\ [][~Acyclic(modules) => (disk' = disk /\ written' = written)]_vars
    /\ [](~Acyclic(modules) =>
            /\ written = <<>>
            /\ htmlIndex = 1
            /\ pc \in {"validate", "writeImports", "abort"}
            /\ pc = "writeImports" => ~argv.noWrite
            /\ (pc = "abort" /\ argv.noWrite) => result.op = "validate"
            /\ (pc = "abort" /\ ~argv.noWrite) =>
                  /\ result.op = "writeImports"
                  /\ result.arg = ConfigHtml[1]
                  /\ result.outcome \in {"Error: ng-app not found", "Error: module not found",
                                         "Error: circular dependency"})

C30_Witness ==
    /\ ~Acyclic(modules)
    /\ ~argv.noWrite
    /\ pc = "abort"
    /\ result.op = "writeImports"
    /\ result.outcome = "Error: circular dependency"
    /\ result.value = <<NgApp("A"), modulesJsStartLabel, modulesJsEndLabel>>
    /\ written = <<>>

====
